---- MODULE Spec2Model ----
(***************************************************************************)
(* Model of the julianday crate (src/src/lib.rs): conversions between      *)
(* chrono's NaiveDate, JulianDay(i32) and ModifiedJulianDay(i32).          *)
(*                                                                         *)
(* The conversions are pure functions over 32-bit machine integers.  A     *)
(* 32-bit word is represented by the integer in I32Min..I32Max that has    *)
(* the same bit pattern (two's complement): an i32 is its own value, a u32 *)
(* of value u is represented by u when u < 2^31 and by u - 2^32 otherwise. *)
(* Wrapping +, -, * act alike on both readings; division, comparison and   *)
(* the overflow conditions do not, and are defined per type.  No           *)
(* intermediate value of the model leaves I32Min..I32Max.                  *)
(*                                                                         *)
(* Rust's arithmetic depends on the build profile: with overflow checks    *)
(* (debug and test profiles) an overflowing +, -, * panics, without them   *)
(* (release profile) it wraps modulo 2^32.  The variable overflow_checks   *)
(* is the profile the crate was built with.                                *)
(***************************************************************************)
EXTENDS Integers, Sequences, FiniteSets, TLC

VARIABLES overflow_checks, hist, calls

vars == <<overflow_checks, hist, calls>>

---------------------------------------------------------------------------
(* Bounds of the model: which inputs are drawn, how many conversions run *)

\* years taken on each side of every anchor year
YearWindow == 1
\* day counts taken on each side of every anchor day count
DayWindow == 3
\* conversions applied one after the other to an input value
MaxSteps == 2

---------------------------------------------------------------------------
(* 32-bit words *)

I32Max == 2147483647
I32Min == -2147483647 - 1

\* x + y modulo 2^32, on bit patterns
WrapAdd(x, y) ==
    IF x >= 0 /\ y >= 0 /\ x > I32Max - y THEN (x + I32Min) + (y + I32Min)
    ELSE IF x < 0 /\ y < 0 /\ x < I32Min - y THEN (x - I32Min) + (y - I32Min)
    ELSE x + y

\* x - y modulo 2^32, on bit patterns
WrapSub(x, y) == IF y = I32Min THEN WrapAdd(WrapAdd(x, I32Max), 1) ELSE WrapAdd(x, 0 - y)

\* x * k modulo 2^32 for a multiplier k >= 0, on bit patterns
RECURSIVE WrapMul(_, _)
WrapMul(x, k) ==
    IF k = 0 THEN 0
    ELSE IF k = 1 THEN x
    ELSE IF x >= 0 /\ x <= I32Max \div k THEN x * k
    ELSE IF x < 0 /\ x >= 0 - (I32Max \div k) THEN x * k
    ELSE LET h == WrapMul(x, k \div 2)
             dbl == WrapAdd(h, h)
         IN  IF k % 2 = 1 THEN WrapAdd(dbl, x) ELSE dbl

\* i32: x + y leaves the signed range
I32AddOverflows(x, y) ==
    \/ x >= 0 /\ y >= 0 /\ x > I32Max - y
    \/ x < 0 /\ y < 0 /\ x < I32Min - y

\* i32: x - y leaves the signed range
I32SubOverflows(x, y) ==
    \/ x >= 0 /\ y < 0 /\ x > I32Max + y
    \/ x < 0 /\ y > 0 /\ x < I32Min + y

\* i32: x * k leaves the signed range, k > 0
I32MulOverflows(x, k) ==
    \/ x > I32Max \div k
    \/ x < 0 - (I32Max \div k) - (((I32Max % k) + 1) \div k)

\* i32: x / k truncating toward zero, k > 0
I32Div(x, k) ==
    IF x >= 0 THEN x \div k
    ELSE IF x = I32Min THEN 0 - ((I32Max \div k) + (((I32Max % k) + 1) \div k))
    ELSE 0 - ((0 - x) \div k)

\* u32: x + y reaches 2^32
U32AddOverflows(x, y) ==
    \/ x < 0 /\ y < 0
    \/ x < 0 /\ y >= 0 /\ x + y >= 0
    \/ x >= 0 /\ y < 0 /\ x + y >= 0

\* u32: x < y as unsigned values
U32Less(x, y) ==
    IF (x >= 0) = (y >= 0) THEN x < y ELSE x >= 0

\* u32: x - y falls below 0
U32SubOverflows(x, y) == U32Less(x, y)

\* u32: x * k reaches 2^32, k >= 2
U32MulOverflows(x, k) ==
    \/ x < 0
    \/ x > 2 * (I32Max \div k) + (2 * (I32Max % k) + 1) \div k

\* u32: x / k as unsigned values, k >= 2
U32Div(x, k) ==
    IF x >= 0 THEN x \div k
    ELSE LET h == (x + I32Max) + 1
         IN  (h \div k) + (I32Max \div k) + ((h % k) + (I32Max % k) + 1) \div k

---------------------------------------------------------------------------
(* Arithmetic expressions: a word and whether computing it overflowed *)

Word(x) == [v |-> x, ov |-> FALSE]

u32_add(x, y) == [v |-> WrapAdd(x.v, y.v), ov |-> x.ov \/ y.ov \/ U32AddOverflows(x.v, y.v)]
u32_sub(x, y) == [v |-> WrapSub(x.v, y.v), ov |-> x.ov \/ y.ov \/ U32SubOverflows(x.v, y.v)]
u32_mul(x, k) == [v |-> WrapMul(x.v, k), ov |-> x.ov \/ U32MulOverflows(x.v, k)]
u32_div(x, k) == [v |-> U32Div(x.v, k), ov |-> x.ov]

i32_add(x, y) == [v |-> WrapAdd(x.v, y.v), ov |-> x.ov \/ y.ov \/ I32AddOverflows(x.v, y.v)]
i32_sub(x, y) == [v |-> WrapSub(x.v, y.v), ov |-> x.ov \/ y.ov \/ I32SubOverflows(x.v, y.v)]
i32_mul(x, k) == [v |-> WrapMul(x.v, k), ov |-> x.ov \/ I32MulOverflows(x.v, k)]
i32_div(x, k) == [v |-> I32Div(x.v, k), ov |-> x.ov]

---------------------------------------------------------------------------
(* Values *)

\* chrono's NaiveDate accepts years MIN_YEAR..MAX_YEAR
MIN_YEAR == -262144
MAX_YEAR == 262143

NaiveDate(y, m, d) == [ty |-> "NaiveDate", year |-> y, month |-> m, day |-> d]

\* pub struct JulianDay(i32)
JulianDay(day) == [ty |-> "JulianDay", day |-> day]

\* pub struct ModifiedJulianDay(i32)
ModifiedJulianDay(day) == [ty |-> "ModifiedJulianDay", day |-> day]

\* the thread panicked in the named function
Panic(at) == [ty |-> "panic", at |-> at]

\* proleptic Gregorian leap year, as chrono decides it
IsLeapYear(y) == (y % 4 = 0) /\ ((y % 100 # 0) \/ (y % 400 = 0))

\* number of days of month m (1..12) of year y
DaysInMonth(y, m) ==
    IF m = 2 THEN (IF IsLeapYear(y) THEN 29 ELSE 28)
    ELSE IF m \in {4, 6, 9, 11} THEN 30
    ELSE 31

\* NaiveDate::from_ymd(year: i32, month: u32, day: u32): panics on an
\* out-of-range or invalid date.  month and day are u32 words: a negative bit
\* pattern is a value of 2^31 or more, which is no month and no day.
from_ymd(year, month, day) ==
    IF /\ MIN_YEAR <= year /\ year <= MAX_YEAR
       /\ 1 <= month /\ month <= 12
       /\ 1 <= day /\ day <= DaysInMonth(year, month)
    THEN NaiveDate(year, month, day)
    ELSE Panic("NaiveDate::from_ymd")

---------------------------------------------------------------------------
(* The conversions *)

\* JulianDay::new
JulianDay_new(day) == JulianDay(day)

\* JulianDay::inner
JulianDay_inner(self) == self.day

\* JulianDay::from with the epoch constant off by one (32046 for 32045)
JulianDay_from_epoch(date, checks) ==
    LET day == Word(date.day)
        month == Word(date.month)
        year == Word(date.year)
        a == u32_div(u32_sub(Word(14), month), 12)
        y == u32_sub(u32_add(year, Word(4800)), a)
        m == u32_sub(u32_add(month, u32_mul(a, 12)), Word(3))
        t1 == u32_add(day, u32_div(u32_add(u32_mul(m, 153), Word(2)), 5))
        t2 == u32_add(t1, u32_mul(y, 365))
        t3 == u32_add(t2, u32_div(y, 4))
        t4 == u32_sub(t3, u32_div(y, 100))
        t5 == u32_add(t4, u32_div(y, 400))
        jd == u32_sub(t5, Word(32046))
    IN  IF checks /\ jd.ov THEN Panic("JulianDay::from") ELSE JulianDay(jd.v)

\* impl From<NaiveDate> for JulianDay: all arithmetic is u32
JulianDay_from(date, checks) ==
    LET day == Word(date.day)
        month == Word(date.month)
        year == Word(date.year)
        a == u32_div(u32_sub(Word(14), month), 12)
        y == u32_sub(u32_add(year, Word(4800)), a)
        m == u32_sub(u32_add(month, u32_mul(a, 12)), Word(3))
        t1 == u32_add(day, u32_div(u32_add(u32_mul(m, 153), Word(2)), 5))
        t2 == u32_add(t1, u32_mul(y, 365))
        t3 == u32_add(t2, u32_div(y, 4))
        t4 == u32_sub(t3, u32_div(y, 100))
        t5 == u32_add(t4, u32_div(y, 400))
        jd == u32_sub(t5, Word(32045))
    IN  IF checks /\ jd.ov THEN Panic("JulianDay::from") ELSE JulianDay(jd.v)

\* JulianDay::to_date with the day of the month counted from 0 (no + 1)
to_date_terms_day0(self) ==
    LET jd == Word(JulianDay_inner(self))
        a == i32_add(jd, Word(32044))
        n1 == i32_add(i32_mul(a, 4), Word(3))
        b == i32_div(n1, 146097)
        n2 == i32_mul(b, 146097)
        c == i32_sub(a, i32_div(n2, 4))
        n3 == i32_add(i32_mul(c, 4), Word(3))
        d == i32_div(n3, 1461)
        n4 == i32_mul(d, 1461)
        e == i32_sub(c, i32_div(n4, 4))
        n5 == i32_add(i32_mul(e, 5), Word(2))
        m == i32_div(n5, 153)
        n6 == i32_add(i32_mul(m, 153), Word(2))
        day == i32_sub(e, i32_div(n6, 5))
        month == i32_sub(i32_add(m, Word(3)), i32_mul(i32_div(m, 10), 12))
        year == i32_add(i32_sub(i32_add(i32_mul(b, 100), d), Word(4800)), i32_div(m, 10))
    IN  [day |-> day, month |-> month, year |-> year,
         dividends |-> <<n1, n2, n3, n4, n5, n6, m>>]

\* the values JulianDay::to_date computes, in the order of the code, with the
\* dividend of every division named: all arithmetic is i32, division truncates
to_date_terms(self) ==
    LET jd == Word(JulianDay_inner(self))
        a == i32_add(jd, Word(32044))
        n1 == i32_add(i32_mul(a, 4), Word(3))
        b == i32_div(n1, 146097)
        n2 == i32_mul(b, 146097)
        c == i32_sub(a, i32_div(n2, 4))
        n3 == i32_add(i32_mul(c, 4), Word(3))
        d == i32_div(n3, 1461)
        n4 == i32_mul(d, 1461)
        e == i32_sub(c, i32_div(n4, 4))
        n5 == i32_add(i32_mul(e, 5), Word(2))
        m == i32_div(n5, 153)
        n6 == i32_add(i32_mul(m, 153), Word(2))
        day == i32_add(i32_sub(e, i32_div(n6, 5)), Word(1))
        month == i32_sub(i32_add(m, Word(3)), i32_mul(i32_div(m, 10), 12))
        year == i32_add(i32_sub(i32_add(i32_mul(b, 100), d), Word(4800)), i32_div(m, 10))
    IN  [day |-> day, month |-> month, year |-> year,
         dividends |-> <<n1, n2, n3, n4, n5, n6, m>>]

\* JulianDay::to_date
JulianDay_to_date(self, checks) ==
    LET t == to_date_terms(self)
    IN  IF checks /\ (t.day.ov \/ t.month.ov \/ t.year.ov) THEN Panic("JulianDay::to_date")
        ELSE from_ymd(t.year.v, t.month.v, t.day.v)

\* ModifiedJulianDay::new
ModifiedJulianDay_new(day) == ModifiedJulianDay(day)

\* ModifiedJulianDay::inner
ModifiedJulianDay_inner(self) == self.day

\* ModifiedJulianDay::from with the offset 2400000 for 2400001
ModifiedJulianDay_from_offset(date, checks) ==
    LET jd == JulianDay_from(date, checks)
        r == i32_sub(Word(JulianDay_inner(jd)), Word(2400000))
    IN  IF jd.ty = "panic" THEN jd
        ELSE IF checks /\ r.ov THEN Panic("ModifiedJulianDay::from")
        ELSE ModifiedJulianDay(r.v)

\* impl From<NaiveDate> for ModifiedJulianDay
ModifiedJulianDay_from(date, checks) ==
    LET jd == JulianDay_from(date, checks)
        r == i32_sub(Word(JulianDay_inner(jd)), Word(2400001))
    IN  IF jd.ty = "panic" THEN jd
        ELSE IF checks /\ r.ov THEN Panic("ModifiedJulianDay::from")
        ELSE ModifiedJulianDay(r.v)

\* ModifiedJulianDay::to_date with the offset 2400000 for 2400001
ModifiedJulianDay_to_date_offset(self, checks) ==
    LET r == i32_add(Word(ModifiedJulianDay_inner(self)), Word(2400000))
    IN  IF checks /\ r.ov THEN Panic("ModifiedJulianDay::to_date")
        ELSE JulianDay_to_date(JulianDay(r.v), checks)

\* ModifiedJulianDay::to_date
ModifiedJulianDay_to_date(self, checks) ==
    LET r == i32_add(Word(ModifiedJulianDay_inner(self)), Word(2400001))
    IN  IF checks /\ r.ov THEN Panic("ModifiedJulianDay::to_date")
        ELSE JulianDay_to_date(JulianDay(r.v), checks)

---------------------------------------------------------------------------
(* Inputs *)

\* years around which calendar dates are drawn: the ends of chrono's range,
\* the first year of the algorithm's 400-year grid, the ends of the range the
\* specification names for 32-bit arithmetic, year 0, century years with and
\* without a leap day, the years of the crate's tests, and years far from 0
YearAnchors ==
    {MIN_YEAR, -100000, -4800, -4000, -400, 0, 100, 1600, 1858, 1900, 2000, 2014, 2020,
     2100, 4000, 100000, MAX_YEAR}

Years ==
    {y \in UNION {(c - YearWindow)..(c + YearWindow) : c \in YearAnchors} :
        MIN_YEAR <= y /\ y <= MAX_YEAR}

\* every date NaiveDate::from_ymd accepts in those years
InputDates ==
    {from_ymd(y, m, d) : y \in Years, m \in 1..12, d \in 1..31} \ {Panic("NaiveDate::from_ymd")}

\* day counts around which JulianDay::new is called: the count of -4800-03-01
\* (the least with jd + 32044 >= 0), 0, the counts of 0000-01-01, 1858-11-17,
\* 2020-02-18 and MAX_YEAR-12-31, the greatest count with 4 * a + 3 in i32,
\* and counts near the ends of i32
JulianDayAnchors ==
    {-2147483000, -32044, 0, 1721060, 2400001, 2458898, 97467189, 536838867, 2147483000}

InputJulianDays ==
    {JulianDay_new(n) : n \in UNION {(c - DayWindow)..(c + DayWindow) : c \in JulianDayAnchors}}

\* day counts around which ModifiedJulianDay::new is called: the crate's
\* tests, and the greatest count with day + 2400001 in i32
ModifiedJulianDayAnchors == {0, 57005, 58897, 2145083646}

InputModifiedJulianDays ==
    {ModifiedJulianDay_new(n) :
        n \in UNION {(c - DayWindow)..(c + DayWindow) : c \in ModifiedJulianDayAnchors}}

---------------------------------------------------------------------------
(* The state machine: a value is constructed, then converted step by       *)
(* step; every conversion consumes the last value and yields the next.     *)
(* hist holds the values in order and calls[i] names the call that         *)
(* yielded hist[i].  A panic ends the run.                                 *)

Last == hist[Len(hist)]

Init ==
    /\ overflow_checks \in BOOLEAN
    /\ \/ \E v \in InputDates : hist = <<v>> /\ calls = <<"NaiveDate::from_ymd">>
       \/ \E v \in InputJulianDays : hist = <<v>> /\ calls = <<"JulianDay::new">>
       \/ \E v \in InputModifiedJulianDays :
              hist = <<v>> /\ calls = <<"ModifiedJulianDay::new">>

\* let jd = JulianDay::from(date)
JulianDayFrom ==
    /\ Len(hist) <= MaxSteps
    /\ Last.ty = "NaiveDate"
    /\ hist' = Append(hist, JulianDay_from(Last, overflow_checks))
    /\ calls' = Append(calls, "JulianDay::from")
    /\ UNCHANGED overflow_checks

\* let date = jd.to_date()
JulianDayToDate ==
    /\ Len(hist) <= MaxSteps
    /\ Last.ty = "JulianDay"
    /\ hist' = Append(hist, JulianDay_to_date(Last, overflow_checks))
    /\ calls' = Append(calls, "JulianDay::to_date")
    /\ UNCHANGED overflow_checks

\* let mjd = ModifiedJulianDay::from(date)
ModifiedJulianDayFrom ==
    /\ Len(hist) <= MaxSteps
    /\ Last.ty = "NaiveDate"
    /\ hist' = Append(hist, ModifiedJulianDay_from(Last, overflow_checks))
    /\ calls' = Append(calls, "ModifiedJulianDay::from")
    /\ UNCHANGED overflow_checks

\* let date = mjd.to_date()
ModifiedJulianDayToDate ==
    /\ Len(hist) <= MaxSteps
    /\ Last.ty = "ModifiedJulianDay"
    /\ hist' = Append(hist, ModifiedJulianDay_to_date(Last, overflow_checks))
    /\ calls' = Append(calls, "ModifiedJulianDay::to_date")
    /\ UNCHANGED overflow_checks

Next ==
    \/ JulianDayFrom
    \/ JulianDayToDate
    \/ ModifiedJulianDayFrom
    \/ ModifiedJulianDayToDate

Spec == Init /\ [][Next]_vars

---------------------------------------------------------------------------
(* Reference definitions the properties are stated against *)

\* the Fliegel-Van Flandern day number of a date, over the integers, with
\* floor division
FliegelVanFlandern(date) ==
    LET a == (14 - date.month) \div 12
        y == date.year + 4800 - a
        m == date.month + 12 * a - 3
    IN  date.day + ((153 * m + 2) \div 5) + 365 * y + (y \div 4) - (y \div 100)
            + (y \div 400) - 32045

\* the inverse algorithm over the integers, with floor division
ToDateFloor(jdn) ==
    LET a == jdn + 32044
        b == (4 * a + 3) \div 146097
        c == a - ((b * 146097) \div 4)
        d == (4 * c + 3) \div 1461
        e == c - ((1461 * d) \div 4)
        m == (5 * e + 2) \div 153
    IN  [ty |-> "NaiveDate",
         year |-> b * 100 + d - 4800 + (m \div 10),
         month |-> m + 3 - 12 * (m \div 10),
         day |-> e - ((153 * m + 2) \div 5) + 1]

\* the day after a date
NextDay(date) ==
    IF date.day < DaysInMonth(date.year, date.month)
    THEN NaiveDate(date.year, date.month, date.day + 1)
    ELSE IF date.month < 12 THEN NaiveDate(date.year, date.month + 1, 1)
    ELSE NaiveDate(date.year + 1, 1, 1)

LastDate == NaiveDate(MAX_YEAR, 12, 31)

\* a date on or after -4800-03-01: its day number n has n + 32044 >= 0
SupportedDate(date) == FliegelVanFlandern(date) + 32044 >= 0

\* a day count n with n + 32044 >= 0 whose date is within chrono's years
SupportedJulianDay(n) == n >= -32044 /\ n <= FliegelVanFlandern(LastDate)

\* positions of hist that hold a value followed by another
Steps == 1..(Len(hist) - 1)

\* hist[i+1] is what JulianDay::from made of the date hist[i]
IsJulianDayFrom(i) == calls[i + 1] = "JulianDay::from"

\* hist[i+1] is what JulianDay::to_date made of the day count hist[i]
IsJulianDayToDate(i) == calls[i + 1] = "JulianDay::to_date"

\* hist[i+1] is what ModifiedJulianDay::to_date made of the day count hist[i]
IsModifiedJulianDayToDate(i) == calls[i + 1] = "ModifiedJulianDay::to_date"

\* hist[i+1] is what ModifiedJulianDay::from made of the date hist[i]
IsModifiedJulianDayFrom(i) == calls[i + 1] = "ModifiedJulianDay::from"

---------------------------------------------------------------------------
(* Properties *)

\* C1: for every valid date D on or after -4800-03-01, JulianDay::from(D)
\* returns a day count and to_date of that day count returns exactly D.
C1_RoundTripDate ==
    \A i \in Steps :
        IsJulianDayFrom(i) /\ SupportedDate(hist[i]) =>
            /\ hist[i + 1].ty = "JulianDay"
            /\ (i + 2 <= Len(hist) => hist[i + 2] = hist[i])

\* C2: for every day count J with J + 32044 >= 0 and a date within chrono's
\* years, JulianDay::new(J).to_date() returns a date and JulianDay::from of
\* that date returns JulianDay::new(J).
C2_RoundTripJulianDay ==
    \A i \in Steps :
        IsJulianDayToDate(i) /\ SupportedJulianDay(hist[i].day) =>
            /\ hist[i + 1].ty = "NaiveDate"
            /\ (i + 2 <= Len(hist) /\ IsJulianDayFrom(i + 1) => hist[i + 2] = hist[i])

\* C3: for every valid date, JulianDay::from returns the Fliegel-Van
\* Flandern day number of the date as computed over the integers.
C3_FromIsFliegelVanFlandern ==
    \A i \in Steps :
        IsJulianDayFrom(i) => hist[i + 1] = JulianDay(FliegelVanFlandern(hist[i]))

\* C4: for every valid date D with a successor, JulianDay::from returns day
\* counts for D and for the day after D, and the second is the first plus 1.
C4_MonotonicStep ==
    \A i \in Steps :
        IsJulianDayFrom(i) /\ hist[i] # LastDate =>
            /\ hist[i + 1].ty = "JulianDay"
            /\ JulianDay_from(NextDay(hist[i]), overflow_checks)
                   = JulianDay(hist[i + 1].day + 1)

\* C5: for every day count J with J + 32044 >= 0 and a date within chrono's
\* years, to_date overflows in none of its steps and hands NaiveDate::from_ymd
\* a year, month and day it accepts.
C5_ToDateTotal ==
    \A i \in Steps :
        IsJulianDayToDate(i) /\ SupportedJulianDay(hist[i].day) =>
            /\ hist[i + 1].ty = "NaiveDate"
            /\ hist[i + 1] = JulianDay_to_date(hist[i], TRUE)
            /\ hist[i + 1].month \in 1..12
            /\ hist[i + 1].day \in 1..DaysInMonth(hist[i + 1].year, hist[i + 1].month)

\* C5 witness: to_date has run on the least supported day count and on the
\* greatest.
C5_Witness ==
    /\ Len(hist) = 2
    /\ hist[1] \in {JulianDay(-32044), JulianDay(FliegelVanFlandern(LastDate))}
    /\ hist[2] \in {NaiveDate(-4800, 3, 1), LastDate}

\* C6: whenever JulianDay::from returns a day count n for a date,
\* ModifiedJulianDay::from returns exactly n - 2400001 for it, the
\* subtraction staying within i32.
C6_AffineConsistency ==
    \A i \in Steps :
        IsModifiedJulianDayFrom(i) =>
            LET jd == JulianDay_from(hist[i], overflow_checks)
            IN  IF jd.ty = "JulianDay"
                THEN /\ jd.day >= I32Min + 2400001
                     /\ hist[i + 1] = ModifiedJulianDay(jd.day - 2400001)
                ELSE hist[i + 1] = jd

\* C6 witness: ModifiedJulianDay::from has returned a negative and a
\* positive count (dates before and after 1858-11-17).
C6_Witness ==
    /\ Len(hist) = 2
    /\ hist[1].ty = "NaiveDate"
    /\ hist[2].ty = "ModifiedJulianDay"
    /\ hist[1].year = 1858 /\ hist[1].month = 11 /\ hist[1].day = 16
    /\ hist[2].day = -1

\* C7: for every valid date D, ModifiedJulianDay::from(D) returns a count
\* and to_date of that count returns exactly D.
C7_RoundTripModifiedJulianDay ==
    \A i \in Steps :
        IsModifiedJulianDayFrom(i) =>
            /\ hist[i + 1].ty = "ModifiedJulianDay"
            /\ (i + 2 <= Len(hist) => hist[i + 2] = hist[i])

\* the pairs the crate's documentation and tests state
KnownJulianDays ==
    {<<NaiveDate(2020, 2, 18), 2458898>>, <<NaiveDate(1858, 11, 17), 2400001>>}

KnownModifiedJulianDays ==
    {<<NaiveDate(2020, 2, 18), 58897>>, <<NaiveDate(1858, 11, 17), 0>>,
     <<NaiveDate(1858, 11, 18), 1>>, <<NaiveDate(1858, 11, 16), -1>>,
     <<NaiveDate(2014, 12, 14), 57005>>}

\* C8: the known pairs convert exactly in both directions: from(date) gives
\* the number and new(number).to_date() gives the date, for JulianDay and
\* for ModifiedJulianDay.
C8_KnownPairs ==
    \A i \in Steps :
        /\ \A p \in KnownJulianDays :
            /\ hist[i] = p[1] /\ IsJulianDayFrom(i) => hist[i + 1] = JulianDay(p[2])
            /\ hist[i] = JulianDay(p[2]) /\ IsJulianDayToDate(i) => hist[i + 1] = p[1]
        /\ \A p \in KnownModifiedJulianDays :
            /\ hist[i] = p[1] /\ IsModifiedJulianDayFrom(i)
                   => hist[i + 1] = ModifiedJulianDay(p[2])
            /\ hist[i] = ModifiedJulianDay(p[2]) /\ IsModifiedJulianDayToDate(i)
                   => hist[i + 1] = p[1]

\* C8 witness: 57005 was converted to 2014-12-14 and back.
C8_Witness ==
    hist = <<ModifiedJulianDay(57005), NaiveDate(2014, 12, 14), ModifiedJulianDay(57005)>>

\* C9: for every valid date with year in -4000..4000, no step of
\* JulianDay::from overflows: it returns a day count also with overflow
\* checks on, the same as with wrap-around.
C9_FromNeverOverflows ==
    \A i \in Steps :
        IsJulianDayFrom(i) /\ hist[i].year \in -4000..4000 =>
            /\ hist[i + 1].ty = "JulianDay"
            /\ JulianDay_from(hist[i], TRUE) = JulianDay_from(hist[i], FALSE)

\* every dividend of to_date on self is non-negative and computed without
\* overflow, and truncating division gives the date floor division gives
TruncationIsFloor(self) ==
    LET t == to_date_terms(self)
    IN  /\ \A k \in DOMAIN t.dividends : ~t.dividends[k].ov /\ t.dividends[k].v >= 0
        /\ ~(t.day.ov \/ t.month.ov \/ t.year.ov)
        /\ NaiveDate(t.year.v, t.month.v, t.day.v) = ToDateFloor(self.day)

\* C10 as stated: for every day count JulianDay::from returns for a valid
\* date, every dividend of to_date is non-negative and truncating division
\* gives the date floor division gives.
C10_TruncationIsFloor ==
    \A i \in Steps :
        IsJulianDayFrom(i) /\ hist[i + 1].ty = "JulianDay" => TruncationIsFloor(hist[i + 1])

\* C10 amended: the same for every day count JulianDay::from returns for a
\* valid date on or after -4800-03-01.
C10_TruncationIsFloorSupported ==
    \A i \in Steps :
        IsJulianDayFrom(i) /\ hist[i + 1].ty = "JulianDay" /\ SupportedDate(hist[i])
            => TruncationIsFloor(hist[i + 1])

\* C10 witness: JulianDay::from returned the count of -4800-03-01, the
\* least with a non-negative first dividend, and to_date ran on it.
C10_Witness ==
    hist = <<NaiveDate(-4800, 3, 1), JulianDay(-32044), NaiveDate(-4800, 3, 1)>>

====
